---- MODULE Spec2Model ----
(***************************************************************************)
(* Air Cargo STRIPS problem (my_air_cargo_problems.py) and the planning    *)
(* graph built from its states (my_planning_graph.py).                     *)
(*                                                                         *)
(* A ground literal expr("At(C1, SFO)") is the tuple <<"At","C1","SFO">>;  *)
(* its negation ~e is <<"~", e>>.  A Python list is a sequence, a Python   *)
(* set is a set.  A state id is a sequence of "T"/"F" over the state map.  *)
(***************************************************************************)
EXTENDS Integers, Sequences, FiniteSets, TLC

VARIABLES state, last, pg, problem, problem_attrs

vars == <<state, last, pg, problem, problem_attrs>>

----------------------------------------------------------------------------
(* Python list helpers *)

InSeq(x, s) == \E i \in 1..Len(s) : s[i] = x

SeqToSet(s) == {s[i] : i \in 1..Len(s)}

\* index of the first occurrence of x in s (x must occur)
FirstIndex(x, s) == CHOOSE i \in 1..Len(s) : s[i] = x /\ \A j \in 1..(i - 1) : s[j] # x

\* list.remove(x) on a list that holds x: drops the first occurrence
RemoveFirst(s, x) ==
    LET k == FirstIndex(x, s)
    IN  [i \in 1..(Len(s) - 1) |-> IF i < k THEN s[i] ELSE s[i + 1]]

----------------------------------------------------------------------------
(* expr / Action / FluentState *)

At(x, y) == <<"At", x, y>>
In(x, y) == <<"In", x, y>>
Neg(e) == <<"~", e>>

Action(name, args, precond, effect) ==
    [name |-> name, args |-> args,
     precond_pos |-> precond[1], precond_neg |-> precond[2],
     effect_add |-> effect[1], effect_rem |-> effect[2]]

FluentState(pos_list, neg_list) == [pos |-> pos_list, neg |-> neg_list]

\* no action, and the record of a call when no call has been made: the
\* operation called, its state argument and action argument, the exception it
\* raised and the value it returned
NoAction == Action("None", <<>>, << <<>>, <<>> >>, << <<>>, <<>> >>)

NoCall == [op |-> "none", arg |-> <<>>, act |-> NoAction, raised |-> "", ret |-> <<>>]

\* lp_utils.decode_state
decode_state(s, fluent_map) ==
    LET idx == [i \in 1..Len(s) |-> i]
        P == SelectSeq(idx, LAMBDA i : s[i] = "T")
        N == SelectSeq(idx, LAMBDA i : s[i] # "T")
    IN  FluentState([k \in 1..Len(P) |-> fluent_map[P[k]]],
                    [k \in 1..Len(N) |-> fluent_map[N[k]]])

\* lp_utils.encode_state
encode_state(fs, fluent_map) ==
    [i \in 1..Len(fluent_map) |-> IF InSeq(fluent_map[i], fs.pos) THEN "T" ELSE "F"]

----------------------------------------------------------------------------
(* air_cargo_p1 *)

p1_cargos == <<"C1", "C2">>
p1_planes == <<"P1", "P2">>
p1_airports == <<"JFK", "SFO">>

p1_pos == <<At("C1", "SFO"), At("C2", "JFK"), At("P1", "SFO"), At("P2", "JFK")>>

p1_neg == <<At("C2", "SFO"), In("C2", "P1"), In("C2", "P2"), At("C1", "JFK"),
            In("C1", "P1"), In("C1", "P2"), At("P1", "JFK"), At("P2", "SFO")>>

p1_goal == <<At("C1", "JFK"), At("C2", "SFO")>>

\* the arguments of AirCargoProblem(cargos, planes, airports, init, goal)
air_cargo_p1 ==
    [cargos |-> p1_cargos, planes |-> p1_planes, airports |-> p1_airports,
     initial |-> FluentState(p1_pos, p1_neg), goal |-> p1_goal]

\* a problem without cargo: one plane to fly between three airports
air_cargo_fly ==
    [cargos |-> <<>>, planes |-> <<"P1">>, airports |-> <<"JFK", "SFO", "ATL">>,
     initial |-> FluentState(<<At("P1", "SFO")>>, <<At("P1", "JFK"), At("P1", "ATL")>>),
     goal |-> <<At("P1", "ATL")>>]

\* air_cargo_p2: "for plane, this_airport in plane_to_airport" iterates the keys
\* of the dict and unpacks each two-character key, 'P1' into plane 'P' and
\* this_airport '1'; the keys are written here as their two characters
p2_cargos == <<"C1", "C2", "C3">>
p2_planes == <<"P1", "P2", "P3">>
p2_airports == <<"JFK", "SFO", "ATL">>
p2_plane_keys == << <<"P", "1">>, <<"P", "2">>, <<"P", "3">> >>
p2_cargo_keys == << <<"C", "1">>, <<"C", "2">>, <<"C", "3">> >>

\* the literals one pass of the plane loop appends to pos (want = TRUE) or neg
p2_plane_pass(key, want) ==
    LET hit == SelectSeq(p2_airports, LAMBDA other_airport : (other_airport = key[2]) = want)
    IN  [i \in 1..Len(hit) |-> At(key[1], hit[i])]

\* the literals one pass of the cargo loop appends to pos or neg
p2_cargo_pass(key, want) ==
    p2_plane_pass(key, want)
    \o (IF want THEN <<>> ELSE [i \in 1..Len(p2_planes) |-> In(key[1], p2_planes[i])])

p2_list(want) ==
    p2_plane_pass(p2_plane_keys[1], want) \o p2_plane_pass(p2_plane_keys[2], want)
    \o p2_plane_pass(p2_plane_keys[3], want)
    \o p2_cargo_pass(p2_cargo_keys[1], want) \o p2_cargo_pass(p2_cargo_keys[2], want)
    \o p2_cargo_pass(p2_cargo_keys[3], want)

air_cargo_p2 ==
    [cargos |-> p2_cargos, planes |-> p2_planes, airports |-> p2_airports,
     initial |-> FluentState(p2_list(TRUE), p2_list(FALSE)),
     goal |-> <<At("C1", "JFK"), At("C2", "SFO"), At("C3", "SFO")>>]

\* the problems the driver is run on
Problems == {air_cargo_p1, air_cargo_fly, air_cargo_p2}

\* self.cargos, self.planes, self.airports, self.goal of the problem searched
cargos == problem.cargos
planes == problem.planes
airports == problem.airports
initial == problem.initial
goal == problem.goal

----------------------------------------------------------------------------
(* get_actions *)

\* the triples of three nested for-loops over a, b, c, in loop order
Loop3(a, b, c) ==
    [i \in 1..(Len(a) * Len(b) * Len(c)) |->
        <<a[((i - 1) \div (Len(b) * Len(c))) + 1],
          b[(((i - 1) \div Len(c)) % Len(b)) + 1],
          c[((i - 1) % Len(c)) + 1]>>]

LoadAction(cargo, plane, airport) ==
    Action("Load", <<cargo, plane, airport>>,
           << <<At(cargo, airport), At(plane, airport)>>, <<>> >>,
           << <<In(cargo, plane)>>, <<At(cargo, plane)>> >>)

load_actions(self) ==
    LET t == Loop3(self.cargos, self.planes, self.airports)
    IN  [i \in 1..Len(t) |-> LoadAction(t[i][1], t[i][2], t[i][3])]

UnloadAction(cargo, plane, airport) ==
    Action("Unload", <<cargo, plane, airport>>,
           << <<In(cargo, plane), At(plane, airport)>>, <<>> >>,
           << <<At(cargo, airport)>>, <<In(cargo, airport)>> >>)

unload_actions(self) ==
    LET t == Loop3(self.cargos, self.planes, self.airports)
    IN  [i \in 1..Len(t) |-> UnloadAction(t[i][1], t[i][2], t[i][3])]

FlyAction(p, fr, to) ==
    Action("Fly", <<p, fr, to>>,
           << <<At(p, fr)>>, <<>> >>,
           << <<At(p, to)>>, <<At(p, fr)>> >>)

fly_actions(self) ==
    LET t == SelectSeq(Loop3(self.airports, self.airports, self.planes),
                       LAMBDA x : x[1] # x[2])
    IN  [i \in 1..Len(t) |-> FlyAction(t[i][3], t[i][1], t[i][2])]

get_actions(self) == load_actions(self) \o unload_actions(self) \o fly_actions(self)

\* AirCargoProblem.__init__: the attributes computed from the arguments
AirCargoProblem(self) ==
    LET map == self.initial.pos \o self.initial.neg
    IN  [state_map |-> map,
         initial_state_TF |-> encode_state(self.initial, map),
         actions_list |-> get_actions(self)]

\* the attributes of each problem, computed once at construction
problem_attributes == [self \in Problems |-> AirCargoProblem(self)]

state_map == problem_attributes[problem].state_map

initial_state_TF == problem_attributes[problem].initial_state_TF

actions_list == problem_attributes[problem].actions_list

----------------------------------------------------------------------------
(* AirCargoProblem.actions / result / goal_test / h_ignore_preconditions *)

\* actions() with the flag decided by the negative preconditions alone
actions_neg_only(s) ==
    LET fs == decode_state(s, state_map)
        ok(action) ==
            \A i \in 1..Len(action.precond_neg) : InSeq(action.precond_neg[i], fs.neg)
    IN  SelectSeq(actions_list, ok)

\* the action loop of actions(): every precond_pos in state.pos and every
\* precond_neg in state.neg
actions(s) ==
    LET fs == decode_state(s, state_map)
        ok(action) ==
            /\ \A i \in 1..Len(action.precond_pos) : InSeq(action.precond_pos[i], fs.pos)
            /\ \A i \in 1..Len(action.precond_neg) : InSeq(action.precond_neg[i], fs.neg)
    IN  SelectSeq(actions_list, ok)

\* the remove loop with a state.pos.remove that ignores an absent element
RECURSIVE rem_loop_discard(_, _, _)
rem_loop_discard(fs, effs, i) ==
    IF fs.raised # "" \/ i > Len(effs) THEN fs
    ELSE IF ~InSeq(effs[i], fs.pos) THEN rem_loop_discard(fs, effs, i + 1)
    ELSE rem_loop_discard([pos |-> RemoveFirst(fs.pos, effs[i]),
                           neg |-> Append(fs.neg, effs[i]),
                           raised |-> ""], effs, i + 1)

\* for effect_rem in action.effect_rem: state.pos.remove(..); state.neg.append(..)
\* list.remove raises ValueError when the element is absent
RECURSIVE rem_loop(_, _, _)
rem_loop(fs, effs, i) ==
    IF fs.raised # "" \/ i > Len(effs) THEN fs
    ELSE IF ~InSeq(effs[i], fs.pos) THEN [fs EXCEPT !.raised = "ValueError"]
    ELSE rem_loop([pos |-> RemoveFirst(fs.pos, effs[i]),
                   neg |-> Append(fs.neg, effs[i]),
                   raised |-> ""], effs, i + 1)

\* for effect_add in action.effect_add: state.pos.append(..); state.neg.remove(..)
RECURSIVE add_loop(_, _, _)
add_loop(fs, effs, i) ==
    IF fs.raised # "" \/ i > Len(effs) THEN fs
    ELSE IF ~InSeq(effs[i], fs.neg)
         THEN [fs EXCEPT !.pos = Append(fs.pos, effs[i]), !.raised = "ValueError"]
    ELSE add_loop([pos |-> Append(fs.pos, effs[i]),
                   neg |-> RemoveFirst(fs.neg, effs[i]),
                   raised |-> ""], effs, i + 1)

\* encode_state fails when a literal of the fluent state is not in the map
encode_raises(fs, fluent_map) ==
    \E e \in SeqToSet(fs.pos) \cup SeqToSet(fs.neg) : ~InSeq(e, fluent_map)

\* result() encoding the new state over its positive literals, not the state map
result_encode_pos(s, action) ==
    LET fs0 == decode_state(s, state_map)
        fs1 == rem_loop([pos |-> fs0.pos, neg |-> fs0.neg, raised |-> ""],
                        action.effect_rem, 1)
        fs2 == add_loop(fs1, action.effect_add, 1)
    IN  IF fs2.raised # "" THEN [raised |-> fs2.raised, ret |-> <<>>]
        ELSE [raised |-> "", ret |-> encode_state(fs2, fs2.pos)]

\* result(state, action): [raised |-> "" , ret |-> state id] or the exception
result(s, action) ==
    LET fs0 == decode_state(s, state_map)
        fs1 == rem_loop([pos |-> fs0.pos, neg |-> fs0.neg, raised |-> ""],
                        action.effect_rem, 1)
        fs2 == add_loop(fs1, action.effect_add, 1)
    IN  IF fs2.raised # "" THEN [raised |-> fs2.raised, ret |-> <<>>]
        ELSE IF encode_raises(fs2, state_map)
             THEN [raised |-> "StateInvariant", ret |-> <<>>]
        ELSE [raised |-> "", ret |-> encode_state(fs2, state_map)]

\* kb = PropKB(); kb.tell(fs.pos_sentence()): the clauses of the conjunction of
\* the positive literals (the empty conjunction is the single clause TRUE)
kb_clauses(fs) == IF Len(fs.pos) = 0 THEN << <<"TRUE">> >> ELSE fs.pos

\* goal_test() returning True at the first goal clause found
goal_test_any(s) ==
    LET clauses == kb_clauses(decode_state(s, state_map))
    IN  \E i \in 1..Len(goal) : InSeq(goal[i], clauses)

goal_test(s) ==
    LET clauses == kb_clauses(decode_state(s, state_map))
    IN  \A i \in 1..Len(goal) : InSeq(goal[i], clauses)

\* the counting loop without its "not": counts the goals already met
RECURSIVE h_ignore_loop_present(_, _, _)
h_ignore_loop_present(node_state, i, count) ==
    IF i > Len(goal) THEN count
    ELSE h_ignore_loop_present(node_state, i + 1,
                               IF InSeq(goal[i], node_state) THEN count + 1 ELSE count)

RECURSIVE h_ignore_loop(_, _, _)
h_ignore_loop(node_state, i, count) ==
    IF i > Len(goal) THEN count
    ELSE h_ignore_loop(node_state, i + 1,
                       IF ~InSeq(goal[i], node_state) THEN count + 1 ELSE count)

\* h_ignore_preconditions() reading the negative literals of the state
h_ignore_preconditions_neg(s) == h_ignore_loop(decode_state(s, state_map).neg, 1, 0)

h_ignore_preconditions(s) == h_ignore_loop(decode_state(s, state_map).pos, 1, 0)

----------------------------------------------------------------------------
(* Planning graph nodes *)

PgNode_s(symbol, is_pos) == [symbol |-> symbol, is_pos |-> is_pos]

\* PgNode_s.literal: expr(symbol), or expr('~symbol') for a negative node
literal(s_node) == IF s_node.is_pos THEN s_node.symbol ELSE Neg(s_node.symbol)

\* PgNode_a.precond_s_nodes
precond_s_nodes(action) ==
    {PgNode_s(action.precond_pos[i], TRUE) : i \in 1..Len(action.precond_pos)}
    \cup {PgNode_s(action.precond_neg[i], FALSE) : i \in 1..Len(action.precond_neg)}

\* PgNode_a.effect_s_nodes
effect_s_nodes(action) ==
    {PgNode_s(action.effect_add[i], TRUE) : i \in 1..Len(action.effect_add)}
    \cup {PgNode_s(action.effect_rem[i], FALSE) : i \in 1..Len(action.effect_rem)}

\* is_persistent set for the positive persistence actions only
is_persistent_pos(action) ==
    precond_s_nodes(action) = effect_s_nodes(action) /\ Len(action.precond_neg) = 0

\* PgNode_a.is_persistent
is_persistent(action) == precond_s_nodes(action) = effect_s_nodes(action)

----------------------------------------------------------------------------
(* PlanningGraph.__init__: the attributes cached on the problem *)

\* noop_actions() without the negative persistence actions
noop_actions_pos(literal_list) ==
    [i \in 1..Len(literal_list) |->
        Action("Noop_pos", <<literal_list[i]>>, << <<literal_list[i]>>, <<>> >>,
               << <<literal_list[i]>>, <<>> >>)]

noop_actions(literal_list) ==
    [i \in 1..(2 * Len(literal_list)) |->
        LET fluent == literal_list[(i + 1) \div 2]
        IN  IF i % 2 = 1
            THEN Action("Noop_pos", <<fluent>>, << <<fluent>>, <<>> >>, << <<fluent>>, <<>> >>)
            ELSE Action("Noop_neg", <<fluent>>, << <<>>, <<fluent>> >>, << <<>>, <<fluent>> >>)]

\* the keys precond_to_action initialises: expr and ~expr for expr in state_map
precond_keys(literal_list) ==
    SeqToSet(literal_list) \cup {Neg(literal_list[i]) : i \in 1..Len(literal_list)}

\* precond_map[precond].add(action) / precond_map[~precond].add(action)
precond_to_action(literal_list, acts) ==
    [k \in precond_keys(literal_list) |->
        {acts[j] : j \in {j \in 1..Len(acts) :
            \/ InSeq(k, acts[j].precond_pos)
            \/ (k[1] = "~" /\ InSeq(k[2], acts[j].precond_neg))}}]

\* a precondition that is no key of the map raises KeyError in precond_to_action
precond_to_action_raises(literal_list, acts) ==
    \E j \in 1..Len(acts) :
        \/ \E i \in 1..Len(acts[j].precond_pos) :
              acts[j].precond_pos[i] \notin precond_keys(literal_list)
        \/ \E i \in 1..Len(acts[j].precond_neg) :
              Neg(acts[j].precond_neg[i]) \notin precond_keys(literal_list)

\* problem.all_actions, problem.actions_for_preconds, problem.goal_nodes: set by
\* the first PlanningGraph built on a problem and read by every later one
graph_attributes ==
    [self \in Problems |->
        LET map == problem_attributes[self].state_map
            acts == problem_attributes[self].actions_list \o noop_actions(map)
        IN  [all_actions |-> acts,
             actions_for_preconds |-> precond_to_action(map, acts),
             goal_nodes |-> {PgNode_s(self.goal[i], TRUE) : i \in 1..Len(self.goal)}]]

all_actions == graph_attributes[problem].all_actions

actions_for_preconds == graph_attributes[problem].actions_for_preconds

goal_nodes == graph_attributes[problem].goal_nodes

----------------------------------------------------------------------------
(* create_graph and its levels *)

\* S0: the literals of the decoded source state
initial_s_level(s) ==
    LET fs == decode_state(s, state_map)
    IN  {PgNode_s(fs.pos[i], TRUE) : i \in 1..Len(fs.pos)}
        \cup {PgNode_s(fs.neg[i], FALSE) : i \in 1..Len(fs.neg)}

\* self.actions_for_preconds[s_node.literal] misses for a literal that is no key
add_action_level_raises(s_nodes) ==
    \E s_node \in s_nodes : literal(s_node) \notin DOMAIN actions_for_preconds

\* the actions of the new A-level (both branches of add_action_level)
add_action_level(s_nodes, short_curcuit) ==
    LET possible_actions == UNION {actions_for_preconds[literal(s_node)] : s_node \in s_nodes}
    IN  IF short_curcuit THEN possible_actions
        ELSE {action \in possible_actions :
                 \E matching_s_node \in s_nodes : matching_s_node \in precond_s_nodes(action)}

\* the S-nodes of the new S-level: the union of the effnodes of the A-level
add_literal_level(a_nodes) == UNION {effect_s_nodes(action) : action \in a_nodes}

\* sys.maxsize stands for infinity (2^63 - 1 in CPython; the largest integer here)
maxsize == 2147483647

\* the level loop without goal_states.remove(x): a goal counts at every level
RECURSIVE levelsum_loop_keep(_, _, _, _, _)
levelsum_loop_keep(s_levels, i, goal_states, level_sum, goal_count) ==
    IF i > Len(s_levels) THEN [level_sum |-> level_sum, goal_count |-> goal_count]
    ELSE LET found == s_levels[i] \cap goal_states
             sum == level_sum + Cardinality(found) * (i - 1)
             count == goal_count + Cardinality(found)
         IN  IF count = Len(goal) THEN [level_sum |-> sum, goal_count |-> count]
             ELSE levelsum_loop_keep(s_levels, i + 1, goal_states, sum, count)

\* the level loop of h_levelsum
RECURSIVE levelsum_loop(_, _, _, _, _)
levelsum_loop(s_levels, i, goal_states, level_sum, goal_count) ==
    IF i > Len(s_levels) THEN [level_sum |-> level_sum, goal_count |-> goal_count]
    ELSE LET found == s_levels[i] \cap goal_states
             sum == level_sum + Cardinality(found) * (i - 1)
             count == goal_count + Cardinality(found)
         IN  IF count = Len(goal) THEN [level_sum |-> sum, goal_count |-> count]
             ELSE levelsum_loop(s_levels, i + 1, goal_states \ found, sum, count)

h_levelsum(s_levels) ==
    LET r == levelsum_loop(s_levels, 1, goal_nodes, 0, 0)
    IN  IF r.goal_count = Len(goal) THEN r.level_sum ELSE maxsize

----------------------------------------------------------------------------
(* Links and mutex sets of the nodes.  They are written as the levels are   *)
(* built and never removed, and create_graph reads none of them, so they    *)
(* are functions of the levels built so far.  A mutex relation is a set of  *)
(* pairs: <<x, y>> stands for "y is in x.mutex".                            *)

\* list(set): the elements of a set in some order
RECURSIVE SetToList(_)
SetToList(S) ==
    IF S = {} THEN <<>>
    ELSE LET x == CHOOSE x \in S : TRUE IN <<x>> \o SetToList(S \ {x})

Reverse(s) == [i \in 1..Len(s) |-> s[Len(s) + 1 - i]]

\* The order in which "for a_node in a_nodes" visits a set of A-nodes follows
\* the hashes of strings, which change from one interpreter run to the next:
\* the orders followed are the order of all_actions, forwards and backwards.
IterationOrders == {all_actions, Reverse(all_actions)}

\* mutexify() adding node2 to node1.mutex only
mutexify_one_way(node1, node2) == {<<node1, node2>>}

\* type(node): an S-node holds a symbol, an A-node the fields of its action
NodeType(node) == IF "symbol" \in DOMAIN node THEN "PgNode_s" ELSE "PgNode_a"

\* mutexify() raises TypeError for two nodes of different types
mutexify_raises(node1, node2) == NodeType(node1) # NodeType(node2)

\* mutexify() without its type test
mutexify_untyped(node1, node2) == {<<node1, node2>>, <<node2, node1>>}

\* the entries mutexify(node1, node2) adds: none when it raises
mutexify(node1, node2) ==
    IF NodeType(node1) # NodeType(node2) THEN {}
    ELSE {<<node1, node2>>, <<node2, node1>>}

\* a_node.parents after add_action_level: the S-nodes of the level among prenodes
a_parents(node_a, s_nodes) == {s_node \in s_nodes : s_node \in precond_s_nodes(node_a)}

\* s_node.parents of a node stored in the level after add_literal_level: the
\* stored node is the effnode of the first A-node visited that has it, and the
\* linking loop adds each A-node to its own effnodes (set.intersection returns
\* the elements of the smaller set)
s_parents(node_s, a_nodes, order) ==
    LET makers == SelectSeq(order, LAMBDA a : a \in a_nodes /\ node_s \in effect_s_nodes(a))
    IN  IF Len(makers) = 0 THEN {} ELSE {makers[1]}

\* a_node.children after add_literal_level: the effnodes of the A-node that are
\* in the new S-level
a_children(node_a, s_nodes) == {s_node \in effect_s_nodes(node_a) : s_node \in s_nodes}

serialize_actions(serial, node_a1, node_a2) ==
    IF ~serial THEN FALSE
    ELSE IF is_persistent(node_a1) \/ is_persistent(node_a2) THEN FALSE
    ELSE TRUE

inconsistent_effects_mutex(node_a1, node_a2) ==
    \/ \E i \in 1..Len(node_a1.effect_add) : InSeq(node_a1.effect_add[i], node_a2.effect_rem)
    \/ \E i \in 1..Len(node_a2.effect_add) : InSeq(node_a2.effect_add[i], node_a1.effect_rem)

\* interfere_with() reading only the add-effects
interfere_with_add(a1, a2) ==
    \E i \in 1..Len(a1.effect_add) : \E j \in 1..Len(a2.precond_neg) :
          a1.effect_add[i] = a2.precond_neg[j]

interfere_with(a1, a2) ==
    \/ \E i \in 1..Len(a1.effect_add) : \E j \in 1..Len(a2.precond_neg) :
          a1.effect_add[i] = a2.precond_neg[j]
    \/ \E i \in 1..Len(a1.effect_rem) : \E j \in 1..Len(a2.precond_pos) :
          a1.effect_rem[i] = a2.precond_pos[j]

interference_mutex(node_a1, node_a2) ==
    interfere_with(node_a2, node_a1) \/ interfere_with(node_a1, node_a2)

\* competing_needs_mutex() that never finds two mutex parents
competing_needs_never(node_a1, node_a2, s_nodes, s_mutex) == FALSE

\* s_nodes, s_mutex: the S-level the parents are in and its mutex relation
competing_needs_mutex(node_a1, node_a2, s_nodes, s_mutex) ==
    \E s1 \in a_parents(node_a1, s_nodes) : \E s2 \in a_parents(node_a2, s_nodes) :
        <<s1, s2>> \in s_mutex

\* the mutex relation of the A-level nodeset after update_a_mutex
update_a_mutex(nodeset, serial, s_nodes, s_mutex) ==
    LET nodelist == SelectSeq(all_actions, LAMBDA a : a \in nodeset)
    IN  UNION {mutexify(nodelist[p[1]], nodelist[p[2]]) :
                 p \in {q \in (1..Len(nodelist)) \X (1..Len(nodelist)) :
                          /\ q[1] < q[2]
                          /\ \/ serialize_actions(serial, nodelist[q[1]], nodelist[q[2]])
                             \/ inconsistent_effects_mutex(nodelist[q[1]], nodelist[q[2]])
                             \/ interference_mutex(nodelist[q[1]], nodelist[q[2]])
                             \/ competing_needs_mutex(nodelist[q[1]], nodelist[q[2]],
                                                      s_nodes, s_mutex)}}

negation_mutex(node_s1, node_s2) ==
    node_s1.symbol = node_s2.symbol /\ node_s1.is_pos # node_s2.is_pos

\* a_nodes, a_mutex: the A-level the parents are in and its mutex relation
inconsistent_support_mutex(node_s1, node_s2, a_nodes, a_mutex, order) ==
    \A a_node_1 \in s_parents(node_s1, a_nodes, order) :
        \A a_node_2 \in s_parents(node_s2, a_nodes, order) :
            <<a_node_1, a_node_2>> \in a_mutex

\* the mutex relation of the S-level nodeset after update_s_mutex
update_s_mutex(nodeset, a_nodes, a_mutex, order) ==
    LET nodelist == SetToList(nodeset)
    IN  UNION {mutexify(nodelist[p[1]], nodelist[p[2]]) :
                 p \in {q \in (1..Len(nodelist)) \X (1..Len(nodelist)) :
                          /\ q[1] < q[2]
                          /\ \/ negation_mutex(nodelist[q[1]], nodelist[q[2]])
                             \/ inconsistent_support_mutex(nodelist[q[1]], nodelist[q[2]],
                                                           a_nodes, a_mutex, order)}}

\* the mutex relations of A-level k and S-level k of the graph g (levels count
\* from 0); S0 has no mutexes and a short-circuit graph computes none
RECURSIVE a_mutex_at(_, _, _)
RECURSIVE s_mutex_at(_, _, _)
a_mutex_at(g, k, order) ==
    IF g.short_curcuit THEN {}
    ELSE update_a_mutex(g.a_levels[k + 1], g.serial, g.s_levels[k + 1], s_mutex_at(g, k, order))

s_mutex_at(g, k, order) ==
    IF g.short_curcuit \/ k = 0 THEN {}
    ELSE update_s_mutex(g.s_levels[k + 1], g.a_levels[k], a_mutex_at(g, k - 1, order), order)

----------------------------------------------------------------------------
(* The state machine: a search driver calls the problem's operations on the *)
(* current node's state and builds planning graphs from it.                 *)
(*   state : the state id of the current search node                        *)
(*   last  : the last call on the problem, with what it returned or raised  *)
(*   pg    : the planning graph under construction or last built            *)
(*   problem : the AirCargoProblem searched, as the arguments it was built  *)
(*             from; it is the same object through a run                    *)
(*   problem_attrs : the attributes PlanningGraph has set on the problem    *)

\* the largest number of level-loop passes of create_graph the model follows
MaxLevel == 4

NoGraph ==
    [pc |-> "none", src |-> <<>>, serial |-> TRUE, short_curcuit |-> FALSE,
     s_levels |-> <<>>, a_levels |-> <<>>, level |-> 0, h |-> 0]

\* the driver is between calls: it holds no return value and no planning graph
Idle == last.op = "none" /\ pg.pc = "none"

StateIds == [1..Len(state_map) -> {"T", "F"}]

Init ==
    /\ problem = air_cargo_p1
    /\ state = initial_state_TF
    /\ last = NoCall
    /\ pg = NoGraph
    /\ problem_attrs = {}

\* any state id of the problem as the current node
InitAny ==
    /\ problem = air_cargo_p1
    /\ state \in StateIds
    /\ last = NoCall
    /\ pg = NoGraph
    /\ problem_attrs = {}

\* air_cargo_p2 from its initial state
InitP2 ==
    /\ problem = air_cargo_p2
    /\ state = initial_state_TF
    /\ last = NoCall
    /\ pg = NoGraph
    /\ problem_attrs = {}

\* the problem without cargo, any state id as the current node
InitFly ==
    /\ problem = air_cargo_fly
    /\ state \in StateIds
    /\ last = NoCall
    /\ pg = NoGraph
    /\ problem_attrs = {}

\* problem.actions(state)
CallActions ==
    /\ Idle
    /\ last' = [op |-> "actions", arg |-> state, act |-> NoAction, raised |-> "",
                ret |-> actions(state)]
    /\ UNCHANGED <<state, pg, problem, problem_attrs>>

\* child node: problem.result(state, action) for an action of actions(state)
Expand(action) ==
    /\ Idle
    /\ InSeq(action, actions(state))
    /\ LET r == result(state, action)
       IN  /\ last' = [op |-> "result", arg |-> state, act |-> action,
                       raised |-> r.raised, ret |-> r.ret]
           /\ state' = IF r.raised = "" THEN r.ret ELSE state
    /\ UNCHANGED <<pg, problem, problem_attrs>>

\* problem.result(state, action) for a catalogue action outside actions(state)
Misuse(action) ==
    /\ Idle
    /\ ~InSeq(action, actions(state))
    /\ LET r == result(state, action)
       IN  last' = [op |-> "result", arg |-> state, act |-> action,
                    raised |-> r.raised, ret |-> r.ret]
    /\ UNCHANGED <<state, pg, problem, problem_attrs>>

\* problem.goal_test(state)
CallGoalTest ==
    /\ Idle
    /\ last' = [op |-> "goal_test", arg |-> state, act |-> NoAction, raised |-> "",
                ret |-> goal_test(state)]
    /\ UNCHANGED <<state, pg, problem, problem_attrs>>

\* problem.h_ignore_preconditions(node)
CallHIgnore ==
    /\ Idle
    /\ last' = [op |-> "h_ignore_preconditions", arg |-> state, act |-> NoAction,
                raised |-> "", ret |-> h_ignore_preconditions(state)]
    /\ UNCHANGED <<state, pg, problem, problem_attrs>>

\* "if not hasattr(problem, 'all_actions')": the attributes of the problem set
\* after a PlanningGraph is constructed on a problem that has the attributes
\* attrs; precond_to_action raising leaves all_actions set without the others
attrs_after_init(attrs) ==
    IF "all_actions" \in attrs THEN attrs
    ELSE IF precond_to_action_raises(state_map, all_actions) THEN {"all_actions"}
    ELSE {"all_actions", "actions_for_preconds", "goal_nodes"}

\* PlanningGraph(problem, state, serial_planning, short_curcuit) up to S0;
\* h_pg_levelsum constructs it with the defaults (TRUE, FALSE)
PlanningGraph(s, serial_planning, short_curcuit) ==
    [pc |-> IF "all_actions" \notin problem_attrs
            THEN IF precond_to_action_raises(state_map, all_actions) THEN "KeyError" ELSE "loop"
            ELSE IF "actions_for_preconds" \notin problem_attrs THEN "AttributeError"
            ELSE "loop",
     src |-> s, serial |-> serial_planning, short_curcuit |-> short_curcuit,
     s_levels |-> <<initial_s_level(s)>>, a_levels |-> <<>>,
     level |-> 0, h |-> 0]

\* a pass of the while loop that never sets leveled
create_graph_pass_unleveled(g) ==
    LET s_nodes == g.s_levels[g.level + 1]
    IN  IF add_action_level_raises(s_nodes)
        THEN [g EXCEPT !.pc = "KeyError"]
        ELSE LET a_nodes == add_action_level(s_nodes, g.short_curcuit)
                 new_s == add_literal_level(a_nodes)
                 shortcut == g.short_curcuit /\ goal_nodes \subseteq new_s
             IN  [g EXCEPT !.a_levels = Append(@, a_nodes),
                           !.s_levels = Append(@, new_s),
                           !.level = @ + 1,
                           !.pc = IF shortcut THEN "built" ELSE "loop"]

\* one pass of the while loop of create_graph on the graph g
create_graph_pass(g) ==
    LET s_nodes == g.s_levels[g.level + 1]
    IN  IF add_action_level_raises(s_nodes)
        THEN [g EXCEPT !.pc = "KeyError"]
        ELSE LET a_nodes == add_action_level(s_nodes, g.short_curcuit)
                 new_s == add_literal_level(a_nodes)
                 leveled == new_s = s_nodes
                 shortcut == g.short_curcuit /\ goal_nodes \subseteq new_s
             IN  [g EXCEPT !.a_levels = Append(@, a_nodes),
                           !.s_levels = Append(@, new_s),
                           !.level = @ + 1,
                           !.pc = IF leveled \/ shortcut THEN "built" ELSE "loop"]

\* the while loop of create_graph run until it returns or raises
RECURSIVE create_graph(_)
create_graph(g) ==
    IF g.pc = "loop" /\ g.level < MaxLevel THEN create_graph(create_graph_pass(g)) ELSE g

\* create_graph() entered without the test of its first lines: it appends a
\* new S-level to the levels already built
create_graph_call_unguarded(g) ==
    [raised |-> "", g |-> [g EXCEPT !.s_levels = Append(@, initial_s_level(g.src))]]

\* create_graph() called on the graph object g: it raises when a level exists,
\* and otherwise builds the graph from S0
create_graph_call(g) ==
    IF Len(g.s_levels) # 0 \/ Len(g.a_levels) # 0
    THEN [raised |-> "Exception", g |-> g]
    ELSE [raised |-> "",
          g |-> create_graph([g EXCEPT !.s_levels = <<initial_s_level(g.src)>>,
                                       !.level = 0, !.pc = "loop"])]

NewGraph(serial_planning, short_curcuit) ==
    /\ Idle
    /\ pg' = PlanningGraph(state, serial_planning, short_curcuit)
    /\ problem_attrs' = attrs_after_init(problem_attrs)
    /\ UNCHANGED <<state, last, problem>>

\* one pass of the while loop of create_graph on the graph under construction
GraphLevel ==
    /\ pg.pc = "loop"
    /\ pg.level < MaxLevel
    /\ pg' = create_graph_pass(pg)
    /\ UNCHANGED <<state, last, problem, problem_attrs>>

\* pg.h_levelsum() on the built graph
Levelsum ==
    /\ pg.pc = "built"
    /\ pg' = [pg EXCEPT !.h = h_levelsum(pg.s_levels), !.pc = "returned"]
    /\ UNCHANGED <<state, last, problem, problem_attrs>>

\* pg.create_graph() called by the driver on the graph the constructor built
CallCreateGraph ==
    /\ pg.pc \in {"built", "returned"}
    /\ last.op = "none"
    /\ LET r == create_graph_call(pg)
       IN  /\ last' = [op |-> "create_graph", arg |-> pg.src, act |-> NoAction,
                       raised |-> r.raised, ret |-> <<>>]
           /\ pg' = r.g
    /\ UNCHANGED <<state, problem, problem_attrs>>

\* mutexify(node1, node2) called by the driver on nodes it has constructed:
\* one of them PgNode_s(goal literal, True), the other PgNode_a(action) for an
\* action of actions(state); ret holds the mutex entries the call has added
CallMutexify(node1, node2) ==
    /\ Idle
    /\ last' = [op |-> "mutexify", arg |-> <<node1, node2>>, act |-> NoAction,
                raised |-> IF mutexify_raises(node1, node2) THEN "TypeError" ELSE "",
                ret |-> mutexify(node1, node2)]
    /\ UNCHANGED <<state, pg, problem, problem_attrs>>

\* the driver drops the value a call returned (or the exception it raised), and
\* the planning graph once its heuristic has returned or its construction raised
Return ==
    /\ \/ last.op # "none"
       \/ pg.pc \in {"returned", "KeyError", "AttributeError"}
    /\ last' = NoCall
    /\ pg' = NoGraph
    /\ UNCHANGED <<state, problem, problem_attrs>>

Next ==
    \/ CallActions
    \/ \E action \in SeqToSet(actions_list) : Expand(action)
    \/ \E action \in SeqToSet(actions_list) : Misuse(action)
    \/ CallGoalTest
    \/ CallHIgnore
    \/ \E serial_planning \in BOOLEAN, short_curcuit \in BOOLEAN :
          NewGraph(serial_planning, short_curcuit)
    \/ GraphLevel
    \/ Levelsum
    \/ CallCreateGraph
    \/ \E node_s \in goal_nodes, node_a \in SeqToSet(actions(state)) :
          CallMutexify(node_s, node_a) \/ CallMutexify(node_a, node_s)
    \/ Return

Spec == Init /\ [][Next]_vars

SpecAny == InitAny /\ [][Next]_vars

SpecFly == InitFly /\ [][Next]_vars

\* air_cargo_p1 from its initial state, and the problem without cargo
SpecBoth == (Init \/ InitFly) /\ [][Next]_vars

\* both problems from any state id
SpecAll == (InitAny \/ InitFly) /\ [][Next]_vars

\* create_graph runs inside the constructor call, without interruption: a pass
\* of its loop that can be taken is taken
SpecFair == (Init \/ InitFly) /\ [][Next]_vars /\ WF_pg(GraphLevel)

\* the three problems: air_cargo_p1 and air_cargo_p2 from their initial states,
\* and the problem without cargo
SpecProblems == (Init \/ InitFly \/ InitP2) /\ [][Next]_vars

----------------------------------------------------------------------------
(* Properties.  A literal is true in a state id when the position of the    *)
(* literal in the state map holds "T", false when it holds "F".             *)

StateTrue(s, e) == \E i \in 1..Len(state_map) : i <= Len(s) /\ state_map[i] = e /\ s[i] = "T"

StateFalse(s, e) == \E i \in 1..Len(state_map) : i <= Len(s) /\ state_map[i] = e /\ s[i] = "F"

\* the state id s with the literal e made false
SetFalse(s, e) == [i \in 1..Len(s) |-> IF state_map[i] = e THEN "F" ELSE s[i]]

Applicable(s, action) ==
    /\ \A i \in 1..Len(action.precond_pos) : StateTrue(s, action.precond_pos[i])
    /\ \A i \in 1..Len(action.precond_neg) : StateFalse(s, action.precond_neg[i])

NameArgs(action) == <<action.name, action.args>>

\* breadth-first search over actions/result steps: the length of a shortest
\* sequence from the frontier's origin to a state passing goal_test, -1 if none
RECURSIVE plan_search(_, _, _)
plan_search(frontier, visited, depth) ==
    IF \E s \in frontier : goal_test(s) THEN depth
    ELSE LET next == {r.ret : r \in {rr \in {result(s[1], s[2]) :
                          s \in UNION {{<<x, a>> : a \in SeqToSet(actions(x))} : x \in frontier}} :
                          rr.raised = ""}} \ visited
         IN  IF next = {} THEN -1 ELSE plan_search(next, visited \cup next, depth + 1)

ShortestPlanLength(s) == plan_search({s}, {s}, 0)

\* C1: for every state reachable from the initial state and every action of
\* actions(s), result(s, a) does not raise, and in the returned state every
\* add-effect is true and every remove-effect is false.
C1_ApplicableResult ==
    (last.op = "result" /\ InSeq(last.act, actions(last.arg))) =>
        /\ last.raised = ""
        /\ \A i \in 1..Len(last.act.effect_add) : StateTrue(last.ret, last.act.effect_add[i])
        /\ \A i \in 1..Len(last.act.effect_rem) : StateFalse(last.ret, last.act.effect_rem[i])

\* C2: actions(s) returns exactly the catalogue actions whose positive
\* preconditions are all true in s and whose negative preconditions are all
\* false in s; from the air_cargo_p1 initial state these are Load(C1,P1,SFO),
\* Load(C2,P2,JFK), Fly(P1,SFO,JFK), Fly(P2,JFK,SFO).
C2_ActionsExact ==
    last.op = "actions" =>
        /\ SeqToSet(last.ret) = {a \in SeqToSet(actions_list) : Applicable(last.arg, a)}
        /\ Len(last.ret) = Cardinality(SeqToSet(last.ret))
        /\ last.arg = initial_state_TF =>
              {NameArgs(a) : a \in SeqToSet(last.ret)} =
                  {<<"Load", <<"C1", "P1", "SFO">> >>, <<"Load", <<"C2", "P2", "JFK">> >>,
                   <<"Fly", <<"P1", "SFO", "JFK">> >>, <<"Fly", <<"P2", "JFK", "SFO">> >>}

C2_Witness ==
    /\ last.op = "actions"
    /\ last.arg = initial_state_TF
    /\ Len(last.ret) = 4

\* C3: applying an applicable Load(c, p, a) yields a state in which In(c, p) is
\* true and At(c, a) is false.
C3_LoadEffect ==
    (last.op = "result" /\ last.act.name = "Load" /\ InSeq(last.act, actions(last.arg))) =>
        /\ last.raised = ""
        /\ StateTrue(last.ret, In(last.act.args[1], last.act.args[2]))
        /\ StateFalse(last.ret, At(last.act.args[1], last.act.args[3]))

\* C4: in air_cargo_p1 a goal state is reachable from the initial state in
\* exactly six actions/result steps and in no fewer.
C4_SixStepPlan ==
    state = initial_state_TF => ShortestPlanLength(state) = 6

\* C5: in every state reachable from the initial state the decoded pos and neg
\* are disjoint and together are exactly the state map.
C5_StatePartition ==
    LET fs == decode_state(state, state_map)
    IN  /\ SeqToSet(fs.pos) \cap SeqToSet(fs.neg) = {}
        /\ SeqToSet(fs.pos) \cup SeqToSet(fs.neg) = SeqToSet(state_map)
        /\ Len(fs.pos) + Len(fs.neg) = Len(state_map)

C5_Witness ==
    /\ last.op = "result"
    /\ last.raised = ""
    /\ state = last.ret
    /\ state # initial_state_TF

\* C6: goal_test(s) is true iff every goal literal is true in s, and making any
\* single goal literal false makes it fail.
C6_GoalTest ==
    last.op = "goal_test" =>
        /\ last.ret <=> (\A i \in 1..Len(goal) : StateTrue(last.arg, goal[i]))
        /\ \A i \in 1..Len(goal) : ~goal_test(SetFalse(last.arg, goal[i]))

C6_Witness ==
    /\ last.op = "goal_test"
    /\ last.ret
    /\ \A i \in 1..Len(goal) : StateTrue(last.arg, goal[i])

\* C7: h_ignore_preconditions returns the number of goal literals not true in
\* s; it is 2 on the air_cargo_p1 initial state and 0 exactly on the states
\* that pass goal_test.
C7_HIgnoreCount ==
    last.op = "h_ignore_preconditions" =>
        /\ last.ret = Cardinality({i \in 1..Len(goal) : ~StateTrue(last.arg, goal[i])})
        /\ last.arg = initial_state_TF => last.ret = 2
        /\ (last.ret = 0) <=> goal_test(last.arg)

C7_Witness ==
    /\ last.op = "h_ignore_preconditions"
    /\ last.arg = initial_state_TF
    /\ last.ret = 2

FirstLevel(s_levels, s_node) ==
    CHOOSE k \in 0..(Len(s_levels) - 1) :
        /\ s_node \in s_levels[k + 1]
        /\ \A j \in 0..(k - 1) : s_node \notin s_levels[j + 1]

Appears(s_levels, s_node) == \E k \in 1..Len(s_levels) : s_node \in s_levels[k]

RECURSIVE SumFirstLevels(_, _)
SumFirstLevels(s_levels, i) ==
    IF i > Len(goal) THEN 0
    ELSE FirstLevel(s_levels, PgNode_s(goal[i], TRUE)) + SumFirstLevels(s_levels, i + 1)

\* C9: when every goal literal appears as a positive S-node in some level of
\* the built graph, h_levelsum returns the sum over the goal literals of the
\* smallest level index at which the literal's positive S-node appears.
C9_LevelSum ==
    (pg.pc = "returned" /\ \A g \in goal_nodes : Appears(pg.s_levels, g)) =>
        pg.h = SumFirstLevels(pg.s_levels, 1)

\* a goal found in S0 and another one found first in S1, which also holds the first
C9_Witness ==
    /\ pg.pc = "returned"
    /\ \A g \in goal_nodes : Appears(pg.s_levels, g)
    /\ \E g \in goal_nodes : g \in pg.s_levels[1] /\ g \in pg.s_levels[2]
    /\ pg.h = 1

\* the S-nodes that can ever appear in an S-level grown from S: the least set
\* closed under the effects of every action with a precondition in it
RECURSIVE LiteralClosure(_)
LiteralClosure(S) ==
    LET acts == UNION {actions_for_preconds[literal(s)] :
                         s \in {x \in S : literal(x) \in DOMAIN actions_for_preconds}}
        S2 == S \cup UNION {effect_s_nodes(a) : a \in acts}
    IN  IF S2 = S THEN S ELSE LiteralClosure(S2)

GoalNeverAppears(s) == ~(goal_nodes \subseteq LiteralClosure(initial_s_level(s)))

\* C10: for a state from which some goal literal never appears in any S-level,
\* h_pg_levelsum (the graph built with the default flags, then h_levelsum) does
\* not raise and returns the infinity sentinel.
C10_UnreachableSentinel ==
    (/\ pg.pc \in {"KeyError", "returned"}
     /\ pg.serial /\ ~pg.short_curcuit
     /\ GoalNeverAppears(pg.src)) =>
        (pg.pc = "returned" /\ pg.h = maxsize)

\* C11: for every state that already satisfies all goal literals, h_pg_levelsum
\* (the graph built with the default flags, then h_levelsum) builds its graph to
\* completion and returns 0.
C11_GoalStateZero ==
    (/\ pg.pc \in {"KeyError", "returned"}
     /\ pg.serial /\ ~pg.short_curcuit
     /\ \A i \in 1..Len(goal) : StateTrue(pg.src, goal[i])) =>
        (pg.pc = "returned" /\ pg.h = 0)

\* C12: for every source state from which all goals are reachable, the graph
\* built with short_curcuit=True yields the same h_levelsum() value as the graph
\* built from the same state with short_curcuit=False.
C12_ShortCircuitEquivalence ==
    (/\ pg.pc = "returned"
     /\ pg.short_curcuit
     /\ ShortestPlanLength(pg.src) >= 0) =>
        LET full == create_graph(PlanningGraph(pg.src, pg.serial, FALSE))
        IN  /\ full.pc = "built"
            /\ h_levelsum(full.s_levels) = pg.h

Symmetric(mutex) == \A p \in mutex : <<p[2], p[1]>> \in mutex

\* C13: after every step of the construction of a planning graph and in the
\* finished graph, the mutex relation of every A-level and of every S-level is
\* symmetric: y is in x.mutex if and only if x is in y.mutex.
C13_MutexSymmetric ==
    pg.pc # "none" =>
        \A order \in IterationOrders :
            /\ \A k \in 1..Len(pg.a_levels) : Symmetric(a_mutex_at(pg, k - 1, order))
            /\ \A k \in 1..Len(pg.s_levels) : Symmetric(s_mutex_at(pg, k - 1, order))

\* a graph with mutex pairs of actions in two A-levels and mutex pairs of
\* literals, other than a literal and its negation, in two S-levels
C13_Witness ==
    /\ pg.pc \in {"loop", "built", "KeyError"}
    /\ ~pg.short_curcuit
    /\ Len(pg.a_levels) >= 2
    /\ \E order \in IterationOrders :
          /\ a_mutex_at(pg, 0, order) # {}
          /\ a_mutex_at(pg, 1, order) # a_mutex_at(pg, 0, order)
          /\ \E p \in s_mutex_at(pg, 1, order) : p[1].symbol # p[2].symbol
          /\ \E p \in s_mutex_at(pg, 2, order) : p[1].symbol # p[2].symbol

\* C14: in every planning graph, for every level k that has a successor, every
\* S-node of S_k is also a member of S_{k+1}.
C14_MonotoneLevels ==
    \A k \in 1..(Len(pg.s_levels) - 1) : pg.s_levels[k] \subseteq pg.s_levels[k + 1]

\* a graph of three S-levels: S1 holds the positive and the negative S-nodes of
\* S0 and is larger than S0, and S2 holds S1
C14_Witness ==
    /\ Len(pg.s_levels) >= 3
    /\ \E s_node \in pg.s_levels[1] : s_node.is_pos /\ s_node \in pg.s_levels[2]
    /\ \E s_node \in pg.s_levels[1] : ~s_node.is_pos /\ s_node \in pg.s_levels[2]
    /\ pg.s_levels[2] # pg.s_levels[1]
    /\ pg.s_levels[2] \subseteq pg.s_levels[3]

\* a remove-effect of x is a positive precondition of y, or an add-effect of x
\* is a negative precondition of y
Undoes(x, y) ==
    \/ SeqToSet(x.effect_rem) \cap SeqToSet(y.precond_pos) # {}
    \/ SeqToSet(x.effect_add) \cap SeqToSet(y.precond_neg) # {}

\* C15: in a full graph any two A-nodes of the same level such that a
\* remove-effect of one is a positive precondition of the other, or an
\* add-effect of one is a negative precondition of the other, are mutex,
\* whatever the serial flag; Load(C1,P1,SFO) and Fly(P1,SFO,JFK) are mutex at
\* the first A-level of the graph built from the air_cargo_p1 initial state.
C15_InterferenceMutex ==
    (pg.pc # "none" /\ ~pg.short_curcuit) =>
        \A order \in IterationOrders :
            /\ \A k \in 1..Len(pg.a_levels) :
                  LET a_mutex == a_mutex_at(pg, k - 1, order)
                  IN  \A x \in pg.a_levels[k] : \A y \in pg.a_levels[k] \ {x} :
                          (Undoes(x, y) \/ Undoes(y, x)) => <<x, y>> \in a_mutex
            /\ (/\ problem = air_cargo_p1
                /\ pg.src = initial_state_TF
                /\ Len(pg.a_levels) >= 1) =>
                  /\ LoadAction("C1", "P1", "SFO") \in pg.a_levels[1]
                  /\ FlyAction("P1", "SFO", "JFK") \in pg.a_levels[1]
                  /\ <<LoadAction("C1", "P1", "SFO"), FlyAction("P1", "SFO", "JFK")>>
                         \in a_mutex_at(pg, 0, order)

\* the non-serial graph of the initial state, where Load(C1,P1,SFO) and
\* Fly(P1,SFO,JFK) have no inconsistent effects and are mutex
C15_Witness ==
    /\ pg.pc # "none" /\ ~pg.short_curcuit /\ ~pg.serial
    /\ problem = air_cargo_p1
    /\ pg.src = initial_state_TF
    /\ Len(pg.a_levels) >= 1
    /\ ~inconsistent_effects_mutex(LoadAction("C1", "P1", "SFO"), FlyAction("P1", "SFO", "JFK"))
    /\ \A order \in IterationOrders :
          <<FlyAction("P1", "SFO", "JFK"), LoadAction("C1", "P1", "SFO")>>
              \in a_mutex_at(pg, 0, order)

\* C16: an action is a member of A_k only if every precondition S-node of the
\* action is a member of S_k (stated for the full graph, where A_k is the set
\* of linked A-nodes).
C16_AllPreconditions ==
    ~pg.short_curcuit =>
        \A k \in 1..Len(pg.a_levels) :
            \A action \in pg.a_levels[k] : precond_s_nodes(action) \subseteq pg.s_levels[k]

\* S-level k of the graph g has the S-nodes and the mutex relation of S-level k - 1
SameAsPrevious(g, k, order) ==
    /\ g.s_levels[k + 1] = g.s_levels[k]
    /\ s_mutex_at(g, k, order) = s_mutex_at(g, k - 1, order)

\* C17: in full mode construction stops at the first level whose S-node set and
\* literal-mutex set both equal those of the level before; it does not stop at
\* a level whose S-node set equals the previous one while the mutex set differs.
C17_LeveledStop ==
    (~pg.short_curcuit /\ pg.pc \in {"loop", "built", "returned"}) =>
        \A order \in IterationOrders :
            \A k \in 1..pg.level :
                SameAsPrevious(pg, k, order) <=>
                    (k = pg.level /\ pg.pc \in {"built", "returned"})

\* C18: while a planning graph is built from any state of the problem, every
\* lookup of the precondition index by the literal of an S-node of an S-level
\* finds a key; no lookup misses (a miss raises KeyError).
C18_NoLookupMiss == pg.pc # "KeyError"

\* C19: for every cargo c, plane p and airport a the catalogue holds exactly one
\* Unload(c, p, a), with positive preconditions {In(c,p), At(p,a)}, no negative
\* preconditions, add-effects {At(c,a)} and remove-effects {In(c,p)}.
C19_UnloadCatalogue ==
    \A c \in SeqToSet(cargos) : \A p \in SeqToSet(planes) : \A a \in SeqToSet(airports) :
        LET found == SelectSeq(actions_list,
                               LAMBDA x : x.name = "Unload" /\ x.args = <<c, p, a>>)
        IN  /\ Len(found) = 1
            /\ SeqToSet(found[1].precond_pos) = {In(c, p), At(p, a)}
            /\ found[1].precond_neg = <<>>
            /\ SeqToSet(found[1].effect_add) = {At(c, a)}
            /\ SeqToSet(found[1].effect_rem) = {In(c, p)}

\* C20: for every state s reachable from the initial state and every catalogue
\* action a that is not in actions(s), result(s, a) fails with an error
\* instead of returning a state id.
C20_InapplicableFails ==
    (last.op = "result" /\ ~InSeq(last.act, actions(last.arg))) => last.raised # ""

\* result() called in the initial state with a Fly whose plane is elsewhere
C20_Witness ==
    /\ last.op = "result"
    /\ last.arg = initial_state_TF
    /\ last.act.name = "Fly"
    /\ ~Applicable(last.arg, last.act)
    /\ last.raised = "ValueError"

----------------------------------------------------------------------------
(* create_graph called again, mutexify on nodes of different kinds *)

\* C21: create_graph called on a planning graph that already holds a level
\* raises an exception and leaves s_levels and a_levels as they were.
C21_RebuildRaises ==
    [][(/\ last.op = "none"
        /\ last'.op = "create_graph"
        /\ (Len(pg.s_levels) # 0 \/ Len(pg.a_levels) # 0))
       => (/\ last'.raised = "Exception"
           /\ pg'.s_levels = pg.s_levels
           /\ pg'.a_levels = pg.a_levels)]_vars

C21_Witness ==
    /\ last.op = "create_graph"
    /\ last.raised = "Exception"
    /\ Len(pg.s_levels) >= 2
    /\ Len(pg.a_levels) >= 1

\* C22: mutexify on one S-node and one A-node (in either order) raises
\* TypeError and adds no entry to the mutex set of either node.
C22_MutexifyTypeError ==
    (last.op = "mutexify" /\ NodeType(last.arg[1]) # NodeType(last.arg[2]))
        => (last.raised = "TypeError" /\ last.ret = {})

C22_Witness ==
    /\ last.op = "mutexify"
    /\ NodeType(last.arg[1]) = "PgNode_a"
    /\ NodeType(last.arg[2]) = "PgNode_s"
    /\ last.raised = "TypeError"

----------------------------------------------------------------------------
(* The problem as a value *)

\* how the constructor of a PlanningGraph ends on a problem no PlanningGraph
\* has been constructed on before
FreshConstruction ==
    IF precond_to_action_raises(state_map, all_actions) THEN "KeyError" ELSE "loop"

\* C23: whatever calls were made before it, a call on the problem ends as it
\* does on a freshly constructed problem: actions, goal_test and
\* h_ignore_preconditions return the value computed from the state id alone,
\* and the construction of the planning graph of h_pg_levelsum ends (by
\* starting its level loop, or by the exception it raises) as it does on a
\* problem that carries no cached attribute.
C23_ReferentiallyTransparent ==
    /\ last.op = "actions" => last.ret = actions(last.arg)
    /\ last.op = "goal_test" => last.ret = goal_test(last.arg)
    /\ last.op = "h_ignore_preconditions" => last.ret = h_ignore_preconditions(last.arg)
    /\ (pg.pc # "none" /\ Len(pg.a_levels) = 0) => pg.pc = FreshConstruction

----------------------------------------------------------------------------
(* The mutex rules *)

\* a synthesized no-op action
IsNoop(a) == a.name \in {"Noop_pos", "Noop_neg"}

\* the four rules of the claim for two A-nodes of a level with the S-nodes
\* s_nodes and the S-level mutex relation s_mutex
SerialRule(serial, a1, a2) == serial /\ ~IsNoop(a1) /\ ~IsNoop(a2)

AddsWhatOtherRemoves(a1, a2) ==
    \/ SeqToSet(a1.effect_add) \cap SeqToSet(a2.effect_rem) # {}
    \/ SeqToSet(a2.effect_add) \cap SeqToSet(a1.effect_rem) # {}

ParentsMutex(a1, a2, s_nodes, s_mutex) ==
    \E s1 \in s_nodes \cap precond_s_nodes(a1) : \E s2 \in s_nodes \cap precond_s_nodes(a2) :
        <<s1, s2>> \in s_mutex

Makers(s_node, a_nodes) == {a \in a_nodes : s_node \in effect_s_nodes(a)}

\* C25: after update_s_mutex on S_{k+1} two distinct S-nodes are mutex if and
\* only if they are one literal with opposite polarities, or every pair of
\* A-nodes of A_k of which the first has s1 and the second has s2 among its
\* effects is mutex in A_k.
C25_LiteralMutexIff ==
    (pg.pc # "none" /\ ~pg.short_curcuit) =>
        \A order \in IterationOrders : \A k \in 1..Len(pg.a_levels) :
            LET a_mutex == a_mutex_at(pg, k - 1, order)
                s_mutex == s_mutex_at(pg, k, order)
            IN  \A s1, s2 \in pg.s_levels[k + 1] :
                    s1 # s2 =>
                        (<<s1, s2>> \in s_mutex <=>
                            \/ (s1.symbol = s2.symbol /\ s1.is_pos # s2.is_pos)
                            \/ \A a1 \in Makers(s1, pg.a_levels[k]) :
                                  \A a2 \in Makers(s2, pg.a_levels[k]) :
                                      <<a1, a2>> \in a_mutex)

\* C26: in a full graph, for every S-node stored in S_{k+1}, the parents of the
\* stored node are all the A-nodes of A_k whose effect S-nodes include it, and
\* the node is among the children of each of them.
C26_ParentsAllMakers ==
    (pg.pc # "none" /\ ~pg.short_curcuit) =>
        \A order \in IterationOrders : \A k \in 1..Len(pg.a_levels) :
            \A s_node \in pg.s_levels[k + 1] :
                /\ s_parents(s_node, pg.a_levels[k], order) = Makers(s_node, pg.a_levels[k])
                /\ \A a \in Makers(s_node, pg.a_levels[k]) :
                      s_node \in a_children(a, pg.s_levels[k + 1])

----------------------------------------------------------------------------
(* Termination of create_graph *)

\* create_graph has returned or raised
Stopped == pg.pc \in {"built", "returned", "KeyError", "AttributeError"}

\* C27: the construction of a planning graph, full or short-circuit, from any
\* source state eventually stops, and a graph whose construction has stopped
\* has one more S-level than A-levels.
C27_Terminates ==
    /\ (pg.pc = "loop") ~> Stopped
    /\ [](Stopped => Len(pg.s_levels) = Len(pg.a_levels) + 1)

\* a full graph that has leveled off after two passes of the loop
C27_Witness ==
    /\ pg.pc = "built"
    /\ ~pg.short_curcuit
    /\ Len(pg.a_levels) = 2
    /\ Len(pg.s_levels) = 3
    /\ pg.s_levels[3] = pg.s_levels[2]
    /\ pg.s_levels[2] # pg.s_levels[1]

----------------------------------------------------------------------------
(* Persistence actions *)

\* the entries of the graph's action list that are no-op actions on the literal
\* with the given name
NoopEntries(name, fluent) ==
    {i \in 1..Len(all_actions) : all_actions[i].name = name /\ all_actions[i].args = <<fluent>>}

====
